---- MODULE Spec2Model ----
(***************************************************************************)
(* The JSON path transformation engine of sphinx-jsonschema                *)
(* (src/sphinx-jsonschema/__init__.py, lines 32-129): path validation,     *)
(* the tree walk (_json_bind / _json_fan_out) and the two transformers.    *)
(*                                                                         *)
(* A Python str is a sequence of one-character strings.  A path segment    *)
(* after maybe_int is a key: either a str or an int.  The walk is a stack  *)
(* machine: one frame per active call of _json_bind / _json_fan_out, one   *)
(* action per loop iteration or call.  Containers are referred to by their *)
(* address (the keys leading to them from the root), which stands for the  *)
(* Python reference the frame holds.                                       *)
(***************************************************************************)
EXTENDS Integers, Sequences, FiniteSets, TLC

\* ------------------------------------------------------------------ bounds

\* Largest number of nodes (containers and scalars) of an input document.
MaxNodes == 3

\* Largest number of segments of an input path.
MaxPathLen == 3

\* ------------------------------------------------------------------ keys

\* A str key / path segment.
StrKey(s) == [int |-> FALSE, s |-> s, n |-> 0]

\* An int key / path segment.
IntKey(n) == [int |-> TRUE, s |-> <<>>, n |-> n]

\* The segment '*'.
STAR == StrKey(<<"*">>)

\* The segment '**'.
DEEP == StrKey(<<"*", "*">>)

KeyA == StrKey(<<"a">>)

KeyX == StrKey(<<"x">>)

\* ------------------------------------------------------------ document nodes

NoItems == [k \in {} |-> 0]

\* A dict (OrderedDict is a dict) with items m.
DictNode(m) == [t |-> "dict", m |-> m, l |-> <<>>, v |-> 0]

\* A list with elements l.
ListNode(l) == [t |-> "list", m |-> NoItems, l |-> l, v |-> 0]

\* An int scalar.  (None, a bool and a float subscript like an int; a str
\* scalar, which an int indexes, is not among the inputs.)
IntNode(v) == [t |-> "int", m |-> NoItems, l |-> <<>>, v |-> v]

\* isinstance(node, dict)
IsDict(node) == node.t = "dict"

\* Python truthiness: `not node` is ~Truthy(node).
Truthy(node) ==
    CASE node.t = "dict" -> DOMAIN node.m # {}
      [] node.t = "list" -> Len(node.l) > 0
      [] OTHER -> node.v # 0

\* The outcome of an expression: a value, or the exception it raises.
Ok(val) == [exc |-> "none", val |-> val]

Raise(exc) == [exc |-> exc, val |-> IntNode(0)]

\* obj[p]
Subscript(obj, p) ==
    CASE obj.t = "dict" ->
            IF p \in DOMAIN obj.m THEN Ok(obj.m[p]) ELSE Raise("KeyError")
      [] obj.t = "list" ->
            IF ~p.int THEN Raise("TypeError")
            ELSE IF p.n < Len(obj.l) THEN Ok(obj.l[p.n + 1])
            ELSE Raise("IndexError")
      [] OTHER -> Raise("TypeError")

\* del obj[p]: the container after the deletion, or the exception.
DelItem(obj, p) ==
    CASE obj.t = "dict" ->
            IF p \in DOMAIN obj.m
            THEN Ok(DictNode([k \in DOMAIN obj.m \ {p} |-> obj.m[k]]))
            ELSE Raise("KeyError")
      [] obj.t = "list" ->
            IF ~p.int THEN Raise("TypeError")
            ELSE IF p.n < Len(obj.l)
            THEN Ok(ListNode(SubSeq(obj.l, 1, p.n) \o SubSeq(obj.l, p.n + 2, Len(obj.l))))
            ELSE Raise("IndexError")
      [] OTHER -> Raise("TypeError")

\* The object an address refers to: the root followed through addr.
RECURSIVE NodeAt(_, _)
NodeAt(root, addr) ==
    IF addr = <<>> THEN root
    ELSE NodeAt(Subscript(root, Head(addr)).val, Tail(addr))

\* The root after the object at addr has been mutated into node.
RECURSIVE SetAt(_, _, _)
SetAt(root, addr, node) ==
    IF addr = <<>> THEN node
    ELSE LET k == Head(addr)
             sub == SetAt(Subscript(root, k).val, Tail(addr), node)
         IN CASE root.t = "dict" -> DictNode([root.m EXCEPT ![k] = sub])
              [] root.t = "list" -> ListNode([root.l EXCEPT ![k.n + 1] = sub])
              [] OTHER -> root

\* ------------------------------------------------------------ transformers

\* remove(doc, key): del doc[key]
remove(obj, key) == DelItem(obj, key)

\* remove_empty(doc, key): if not doc[key]: del doc[key]
remove_empty(obj, key) ==
    LET got == Subscript(obj, key)
    IN IF got.exc # "none" THEN Raise(got.exc)
       ELSE IF ~Truthy(got.val) THEN DelItem(obj, key)
       ELSE Ok(obj)

\* transform(doc, key) for the transformer passed in.
Transform(tr, obj, key) ==
    IF tr = "remove" THEN remove(obj, key) ELSE remove_empty(obj, key)

\* ------------------------------------------------------------ path parsing

\* pairwise(seq): zip(seq, seq[1:]) as a set
pairwise(seq) == {<<seq[i], seq[i + 1]>> : i \in 1..(Len(seq) - 1)}

Digits == <<"0", "1", "2", "3", "4", "5", "6", "7", "8", "9">>

IsDigit(c) == \E i \in 1..Len(Digits) : Digits[i] = c

DigitVal(c) == (CHOOSE i \in 1..Len(Digits) : Digits[i] = c) - 1

RECURSIVE DigitsVal(_)
DigitsVal(s) ==
    IF s = <<>> THEN 0
    ELSE 10 * DigitsVal(SubSeq(s, 1, Len(s) - 1)) + DigitVal(s[Len(s)])

\* maybe_int(val): int(val) when val is a run of decimal digits, else val.
\* (int() also takes a sign, blanks and underscores: not in the alphabet.)
maybe_int(val) ==
    IF val # <<>> /\ \A i \in 1..Len(val) : IsDigit(val[i])
    THEN IntKey(DigitsVal(val))
    ELSE StrKey(val)

\* path.split('/')
RECURSIVE Split(_)
Split(s) ==
    IF \A i \in 1..Len(s) : s[i] # "/" THEN <<s>>
    ELSE LET i == CHOOSE j \in 1..Len(s) :
                     s[j] = "/" /\ \A h \in 1..(j - 1) : s[h] # "/"
         IN <<SubSeq(s, 1, i - 1)>> \o Split(SubSeq(s, i + 1, Len(s)))

\* [maybe_int(p) for p in segs]
RECURSIVE MapMaybeInt(_)
MapMaybeInt(segs) ==
    IF segs = <<>> THEN <<>>
    ELSE <<maybe_int(Head(segs))>> \o MapMaybeInt(Tail(segs))

\* [maybe_int(p) for p in path.split('/')[1:]]
Parts(path) == MapMaybeInt(Tail(Split(path)))

forbidden == {<<"**", "**">>, <<"**", "*">>, <<"*", "**">>, <<"*", "*">>}

\* json_path_validate without its first test, lines 47-48.
json_path_validate_NoTrailingTest(path) ==
    (pairwise(path) \cap forbidden) # {}

\* json_path_validate(path): path is whatever sequence the caller passes;
\* its elements are compared with the strings '*' and '**'.
json_path_validate(path) ==
    IF path[Len(path)] \in {"*", "**"} THEN FALSE
    ELSE (pairwise(path) \cap forbidden) # {}

\* ------------------------------------------------------------------ inputs

\* The keys of the input documents' dicts, in insertion order, one sequence
\* per set of keys.
KeySeqs == {<<>>, <<KeyA>>, <<KeyX>>, <<KeyA, KeyX>>}

Scalars == {IntNode(1)}

ItemsOf(ks, vals) ==
    [k \in {ks[i] : i \in 1..Len(ks)} |-> vals[CHOOSE i \in 1..Len(ks) : ks[i] = k]]

\* DocsOfSize(n): the documents with exactly n nodes.  DocTuples(j, n): the
\* j-tuples of documents with n nodes in total.
RECURSIVE DocsOfSize(_), DocTuples(_, _)
DocTuples(j, n) ==
    IF j = 0 THEN (IF n = 0 THEN {<<>>} ELSE {})
    ELSE UNION {{<<d>> \o r : d \in DocsOfSize(s), r \in DocTuples(j - 1, n - s)} :
                s \in 1..n}

DocsOfSize(n) ==
    (IF n = 1 THEN Scalars ELSE {})
    \cup UNION {{DictNode(ItemsOf(ks, vals)) : vals \in DocTuples(Len(ks), n - 1)} :
                ks \in KeySeqs}
    \cup UNION {{ListNode(vals) : vals \in DocTuples(j, n - 1)} : j \in 0..(n - 1)}

\* The input documents: every tree of dicts, lists and scalars of at most
\* MaxNodes nodes.
Documents == UNION {DocsOfSize(n) : n \in 1..MaxNodes}

\* The sequences over S of length 0..n.
RECURSIVE SeqsUpTo(_, _)
SeqsUpTo(S, n) ==
    IF n = 0 THEN {<<>>}
    ELSE LET shorter == SeqsUpTo(S, n - 1)
         IN shorter \cup {Append(q, e) : q \in shorter, e \in S}

\* The segments of the input paths of a direct call of _json_bind.
Segs == {KeyA, KeyX, IntKey(0), STAR, DEEP}

SegPaths == SeqsUpTo(Segs, MaxPathLen)

\* The segments of the input path strings: the same, as text.
SegStrs == {<<"a">>, <<"x">>, <<"0">>, <<"*">>, <<"*", "*">>}

\* '/' + '/'.join(segs), and '' for no segment
RECURSIVE JoinSlash(_)
JoinSlash(segs) ==
    IF segs = <<>> THEN <<>>
    ELSE <<"/">> \o Head(segs) \o JoinSlash(Tail(segs))

PathStrings == {JoinSlash(segs) : segs \in SeqsUpTo(SegStrs, MaxPathLen)}

Transformers == {"remove", "remove_empty"}

\* ------------------------------------------------------------------ state

VARIABLES
    document,     \* the document being transformed in place
    orig,         \* the document as it was passed in
    first,        \* the document after the first application of the path
    path,         \* json_path_transform's path string
    parts,        \* the parsed segments (_json_bind's path)
    transformer,  \* "remove" or "remove_empty"
    stack,        \* the active calls of _json_bind / _json_fan_out, top last
    status,       \* "call", "walk", "returned", "raised"
    exc,          \* the exception raised, "none" if none
    calls,        \* the calls of the transform made in this application
    pass          \* 1: first application of the path, 2: the same path again

vars == <<document, orig, first, path, parts, transformer, stack, status, exc,
          calls, pass>>

\* A call of _json_bind(doc, path, transform); doc is the address of the
\* (sub)document.  obj and last start as doc.
BindFrame(addr, p) ==
    [fn |-> "_json_bind", doc |-> addr, path |-> p, deep |-> FALSE, idx |-> 1,
     obj |-> addr, last |-> addr, todo |-> {}, targets |-> <<>>, pc |-> "loop"]

\* A call of _json_fan_out(doc, path, transform, deep).
FanFrame(addr, p, deep) ==
    [fn |-> "_json_fan_out", doc |-> addr, path |-> p, deep |-> deep, idx |-> 0,
     obj |-> addr, last |-> addr, todo |-> {}, targets |-> <<>>, pc |-> "enter"]

Top == stack[Len(stack)]

\* What a call of transform(container at addr, key) is recorded as: whether a
\* `for (k,v) in doc.items()` loop over that container is running on the
\* stack, and whether the container holds the key.
CallRecord(stk, docu, addr, key, via) ==
    [at |-> addr, key |-> key, via |-> via,
     iterating |-> \E i \in 1..Len(stk) :
                      /\ stk[i].fn = "_json_fan_out"
                      /\ stk[i].pc = "iter"
                      /\ stk[i].doc = addr,
     present |-> Subscript(NodeAt(docu, addr), key).exc = "none",
     depth |-> Len(stk)]

\* transform(container at addr, key) on document docu: the exception, and
\* the document after it.
ApplyTransform(docu, tr, addr, key) ==
    LET r == Transform(tr, NodeAt(docu, addr), key)
    IN [exc |-> r.exc,
        doc |-> IF r.exc = "none" THEN SetAt(docu, addr, r.val) ELSE docu]

\* The top call returns to its caller.
Return ==
    /\ stack' = SubSeq(stack, 1, Len(stack) - 1)
    /\ status' = IF Len(stack) = 1 THEN "returned" ELSE "walk"
    /\ exc' = exc

\* An exception no frame catches unwinds the whole stack.
Uncaught(e) ==
    /\ stack' = <<>>
    /\ status' = "raised"
    /\ exc' = e

\* --------------------------------------------------------- json_path_transform

\* json_path_transform(document, path, transformer), lines 115-120: parse,
\* validate, raise ValueError or call _json_bind on the root.
JsonPathTransform ==
    /\ status = "call"
    /\ parts' = Parts(path)
    /\ IF Parts(path) = <<>> \/ ~json_path_validate(path)
       THEN Uncaught("ValueError")
       ELSE /\ stack' = <<BindFrame(<<>>, Parts(path))>>
            /\ status' = "walk"
            /\ exc' = exc
    /\ UNCHANGED <<document, orig, first, path, transformer, calls, pass>>

\* ------------------------------------------------------------------ _json_bind

\* for idx, p in enumerate(path): p is a wildcard, lines 91-97.  The fan-out
\* is the call's result: the frame of _json_bind does nothing after it.
BindWildcard ==
    /\ status = "walk"
    /\ Top.fn = "_json_bind"
    /\ Top.idx <= Len(Top.path)
    /\ Top.path[Top.idx] \in {DEEP, STAR}
    /\ stack' = [stack EXCEPT ![Len(stack)] =
                    FanFrame(Top.obj,
                             SubSeq(Top.path, Top.idx + 1, Len(Top.path)),
                             Top.path[Top.idx] = DEEP)]
    /\ UNCHANGED <<document, orig, first, path, parts, transformer, status, exc,
                   calls, pass>>

\* for idx, p in enumerate(path): p is a literal, lines 99-103.
\* KeyError and IndexError end the call; anything else propagates.
BindDescend ==
    /\ status = "walk"
    /\ Top.fn = "_json_bind"
    /\ Top.idx <= Len(Top.path)
    /\ Top.path[Top.idx] \notin {DEEP, STAR}
    /\ LET p == Top.path[Top.idx]
           got == Subscript(NodeAt(document, Top.obj), p)
       IN CASE got.exc = "none" ->
                 /\ stack' = [stack EXCEPT ![Len(stack)] =
                                 [Top EXCEPT !.last = Top.obj,
                                             !.obj = Append(Top.obj, p),
                                             !.idx = Top.idx + 1]]
                 /\ UNCHANGED <<status, exc>>
            [] got.exc \in {"KeyError", "IndexError"} -> Return
            [] OTHER -> Uncaught(got.exc)
    /\ UNCHANGED <<document, orig, first, path, parts, transformer, calls, pass>>

\* The loop is over, lines 105-106: if path: transform(last, path[-1]).
BindFinish ==
    /\ status = "walk"
    /\ Top.fn = "_json_bind"
    /\ Top.idx > Len(Top.path)
    /\ IF Top.path = <<>>
       THEN Return /\ UNCHANGED <<document, calls>>
       ELSE LET key == Top.path[Len(Top.path)]
                r == ApplyTransform(document, transformer, Top.last, key)
            IN /\ calls' = Append(calls,
                      CallRecord(stack, document, Top.last, key, "_json_bind"))
               /\ document' = r.doc
               /\ IF r.exc = "none" THEN Return ELSE Uncaught(r.exc)
    /\ UNCHANGED <<orig, first, path, parts, transformer, pass>>

\* --------------------------------------------------------------- _json_fan_out

\* if not isinstance(doc, dict) or not path: return; targets = [], lines 62-65.
FanEnter ==
    /\ status = "walk"
    /\ Top.fn = "_json_fan_out"
    /\ Top.pc = "enter"
    /\ LET node == NodeAt(document, Top.doc)
       IN IF ~IsDict(node) \/ Top.path = <<>>
          THEN Return
          ELSE /\ stack' = [stack EXCEPT ![Len(stack)] =
                               [Top EXCEPT !.todo = DOMAIN node.m, !.pc = "iter"]]
               /\ UNCHANGED <<status, exc>>
    /\ UNCHANGED <<document, orig, first, path, parts, transformer, calls, pass>>

\* The match transformed inside the loop instead of collected.
FanOnMatchAtOnce(targets, k) == [targets |-> targets, now |-> <<k>>]

\* if k == path[0]: targets.append(k), lines 68-69: the targets after it, and
\* the keys transformed at once (none).
FanOnMatch(targets, k) == [targets |-> Append(targets, k), now |-> <<>>]

\* The else branch without its `if deep` arm, lines 72-73.
FanCalleeNoDeep(f, k, v) ==
    IF ~IsDict(v) THEN <<>>
    ELSE LET sub_path == Tail(f.path)
         IN IF sub_path # <<>> THEN <<BindFrame(Append(f.doc, k), sub_path)>>
            ELSE <<>>

\* The else branch, lines 71-77: the call made for item (k, v) of the dict at
\* f.doc, as the frames to push.
FanCallee(f, k, v) ==
    IF ~IsDict(v) THEN <<>>
    ELSE IF f.deep THEN <<FanFrame(Append(f.doc, k), f.path, TRUE)>>
    ELSE LET sub_path == Tail(f.path)
         IN IF sub_path # <<>> THEN <<BindFrame(Append(f.doc, k), sub_path)>>
            ELSE <<>>

\* The transforms of keys `now` on the dict at addr, one after the other.
RECURSIVE ApplyAll(_, _, _, _, _)
ApplyAll(stk, docu, log, addr, now) ==
    IF now = <<>> THEN [exc |-> "none", doc |-> docu, calls |-> log]
    ELSE LET r == ApplyTransform(docu, transformer, addr, Head(now))
             log2 == Append(log, CallRecord(stk, docu, addr, Head(now),
                                            "_json_fan_out"))
         IN IF r.exc # "none" THEN [exc |-> r.exc, doc |-> r.doc, calls |-> log2]
            ELSE ApplyAll(stk, r.doc, log2, addr, Tail(now))

\* One iteration of for (k,v) in doc.items(), lines 67-77.  The dict's items
\* come in insertion order, which is any order.
FanIter ==
    /\ status = "walk"
    /\ Top.fn = "_json_fan_out"
    /\ Top.pc = "iter"
    /\ \E k \in Top.todo :
         LET v == NodeAt(document, Top.doc).m[k]
             hit == k = Top.path[1]
             m == IF hit THEN FanOnMatch(Top.targets, k)
                  ELSE [targets |-> Top.targets, now |-> <<>>]
             callee == IF hit THEN <<>> ELSE FanCallee(Top, k, v)
             done == ApplyAll(stack, document, calls, Top.doc, m.now)
         IN /\ document' = done.doc
            /\ calls' = done.calls
            /\ IF done.exc # "none" THEN Uncaught(done.exc)
               ELSE /\ stack' = [stack EXCEPT ![Len(stack)] =
                                    [Top EXCEPT !.todo = Top.todo \ {k},
                                                !.targets = m.targets]] \o callee
                    /\ UNCHANGED <<status, exc>>
    /\ UNCHANGED <<orig, first, path, parts, transformer, pass>>

\* The for loop over doc.items() is exhausted.
FanIterEnd ==
    /\ status = "walk"
    /\ Top.fn = "_json_fan_out"
    /\ Top.pc = "iter"
    /\ Top.todo = {}
    /\ stack' = [stack EXCEPT ![Len(stack)] = [Top EXCEPT !.pc = "apply"]]
    /\ UNCHANGED <<document, orig, first, path, parts, transformer, status, exc,
                   calls, pass>>

\* One iteration of for r in targets: transform(doc, r), lines 81-82.
FanApply ==
    /\ status = "walk"
    /\ Top.fn = "_json_fan_out"
    /\ Top.pc = "apply"
    /\ Top.targets # <<>>
    /\ LET done == ApplyAll(stack, document, calls, Top.doc, <<Head(Top.targets)>>)
       IN /\ document' = done.doc
          /\ calls' = done.calls
          /\ IF done.exc # "none" THEN Uncaught(done.exc)
             ELSE /\ stack' = [stack EXCEPT ![Len(stack)] =
                                  [Top EXCEPT !.targets = Tail(Top.targets)]]
                  /\ UNCHANGED <<status, exc>>
    /\ UNCHANGED <<orig, first, path, parts, transformer, pass>>

\* The targets are done: _json_fan_out returns.
FanReturn ==
    /\ status = "walk"
    /\ Top.fn = "_json_fan_out"
    /\ Top.pc = "apply"
    /\ Top.targets = <<>>
    /\ Return
    /\ UNCHANGED <<document, orig, first, path, parts, transformer, calls, pass>>

Walk ==
    \/ BindWildcard
    \/ BindDescend
    \/ BindFinish
    \/ FanEnter
    \/ FanIter
    \/ FanIterEnd
    \/ FanApply
    \/ FanReturn

\* ------------------------------------------------------------------ callers

\* The caller walks the same segments again, as JsonSchema.run does with a
\* path listed twice (lines 163-168).
ReapplyBind ==
    /\ status = "returned"
    /\ pass = 1
    /\ pass' = 2
    /\ first' = document
    /\ calls' = <<>>
    /\ status' = "walk"
    /\ stack' = <<BindFrame(<<>>, parts)>>
    /\ UNCHANGED <<document, orig, path, parts, transformer, exc>>

\* json_path_transform(document, path, transformer) on every input.
Init ==
    /\ document \in Documents
    /\ orig = document
    /\ first = document
    /\ path \in PathStrings
    /\ parts = <<>>
    /\ transformer \in Transformers
    /\ stack = <<>>
    /\ status = "call"
    /\ exc = "none"
    /\ calls = <<>>
    /\ pass = 1

Next == JsonPathTransform \/ Walk

Spec == Init /\ [][Next]_vars

\* _json_bind(document, parts, transformer) on every input.
InitBind ==
    /\ document \in Documents
    /\ orig = document
    /\ first = document
    /\ path = <<>>
    /\ parts \in SegPaths
    /\ transformer \in Transformers
    /\ stack = <<BindFrame(<<>>, parts)>>
    /\ status = "walk"
    /\ exc = "none"
    /\ calls = <<>>
    /\ pass = 1

NextBind == Walk

SpecBind == InitBind /\ [][NextBind]_vars

\* _json_bind(document, parts, transformer) twice on every input.
NextTwice == Walk \/ ReapplyBind

SpecTwice == InitBind /\ [][NextTwice]_vars

\* ------------------------------------------------------------------ claims

Wildcards == {STAR, DEEP}

WildcardStrs == {<<"*">>, <<"*", "*">>}

\* The segments /seg1/.../segN of a path string, as text.
SegsOf(p) == Tail(Split(p))

\* The path invariant of a segment sequence: non-empty, the last segment a
\* concrete key, no two consecutive wildcards.
PathInvariant(p) ==
    /\ p # <<>>
    /\ p[Len(p)] \notin Wildcards
    /\ \A i \in 1..(Len(p) - 1) : ~(p[i] \in Wildcards /\ p[i + 1] \in Wildcards)

\* C1: a path /seg1/.../segN, N >= 1, with no segment `*` or `**` is
\* accepted: json_path_transform does not raise the invalid-path error.
C1_LiteralPathAccepted ==
    (/\ status # "call"
     /\ Len(SegsOf(path)) >= 1
     /\ \A i \in 1..Len(SegsOf(path)) : SegsOf(path)[i] \notin WildcardStrs)
    => exc # "ValueError"

\* C2: a path with two consecutive wildcard segments is rejected:
\* json_path_transform raises the invalid-path error and the tree walk never
\* starts.
C2_AdjacentWildcardsRejected ==
    (/\ status # "call"
     /\ \E i \in 1..(Len(SegsOf(path)) - 1) :
           /\ SegsOf(path)[i] \in WildcardStrs
           /\ SegsOf(path)[i + 1] \in WildcardStrs)
    => (status = "raised" /\ exc = "ValueError")

\* C3: a path whose last segment is `*` or `**` is rejected, whatever the
\* segments before it: json_path_transform raises the invalid-path error,
\* no walk starts and the document is untouched.
C3_TrailingWildcardRejected ==
    LET segs == SegsOf(path)
    IN (/\ status # "call"
        /\ Len(segs) >= 1
        /\ segs[Len(segs)] \in WildcardStrs)
       => (/\ status = "raised"
           /\ exc = "ValueError"
           /\ stack = <<>>
           /\ calls = <<>>
           /\ document = orig)

\* A path that starts with `**` and ends in a wildcard has been rejected:
\* its text holds two adjacent asterisks, so only the test of the last
\* element rejects it.
C3_Witness ==
    /\ status = "raised"
    /\ exc = "ValueError"
    /\ Len(SegsOf(path)) >= 2
    /\ SegsOf(path)[1] = <<"*", "*">>
    /\ SegsOf(path)[Len(SegsOf(path))] \in WildcardStrs

\* C4: the walk of a non-empty segment sequence never raises: a path that
\* does not resolve ends silently, and when nothing matched the document is
\* unchanged.
C4_WalkNeverRaises ==
    parts # <<>> =>
        /\ status # "raised"
        /\ (status = "returned" /\ calls = <<>>) => document = orig

\* The root dict with key k deleted from every immediate child dict that
\* holds k.
RemoveFromChildren(root, k) ==
    DictNode([c \in DOMAIN root.m |->
                 IF IsDict(root.m[c]) /\ k \in DOMAIN root.m[c].m
                 THEN DictNode([j \in DOMAIN root.m[c].m \ {k} |-> root.m[c].m[j]])
                 ELSE root.m[c]])

\* C5: [`*`, k] walked with remove on a root dict deletes k from every
\* immediate child dict that holds k and changes nothing else.
C5_SingleLevelWildcard ==
    (/\ status \in {"returned", "raised"}
     /\ Len(parts) = 2
     /\ parts[1] = STAR
     /\ parts[2] \notin Wildcards
     /\ transformer = "remove"
     /\ IsDict(orig))
    => (status = "returned" /\ document = RemoveFromChildren(orig, parts[2]))

\* Whether a dict reachable from node through dict values (node included)
\* holds key k.
RECURSIVE KeyReachable(_, _)
KeyReachable(node, k) ==
    /\ IsDict(node)
    /\ \/ k \in DOMAIN node.m
       \/ \E c \in DOMAIN node.m : KeyReachable(node.m[c], k)

\* node with key k deleted from every dict reachable through dict values.
RECURSIVE RemoveDeep(_, _)
RemoveDeep(node, k) ==
    IF ~IsDict(node) THEN node
    ELSE DictNode([c \in DOMAIN node.m \ {k} |-> RemoveDeep(node.m[c], k)])

\* The path string is /**/seg with seg a concrete key.
IsDeepKeyPath ==
    LET segs == SegsOf(path)
    IN /\ Len(segs) = 2
       /\ segs[1] = <<"*", "*">>
       /\ segs[2] \notin WildcardStrs

\* C6: after json_path_transform(document, '/**/k', remove) on a root dict,
\* no dict reachable from the root through dict values holds k, and every
\* other key outside the removed subtrees is unchanged.
C6_DeepRemove ==
    (/\ status # "call"
     /\ transformer = "remove"
     /\ IsDict(orig)
     /\ IsDeepKeyPath)
    => LET k == maybe_int(SegsOf(path)[2])
       IN /\ exc = "none"
          /\ status = "returned" =>
                /\ ~KeyReachable(document, k)
                /\ document = RemoveDeep(orig, k)

\* /**/k with remove has returned and took k out of a child dict.
C6_Witness ==
    /\ status = "returned"
    /\ IsDeepKeyPath
    /\ transformer = "remove"
    /\ IsDict(orig)
    /\ \E c \in DOMAIN orig.m :
          /\ IsDict(orig.m[c])
          /\ maybe_int(SegsOf(path)[2]) \in DOMAIN orig.m[c].m
          /\ c \in DOMAIN document.m
          /\ maybe_int(SegsOf(path)[2]) \notin DOMAIN document.m[c].m

\* C7: for a path that satisfies the path invariant, every call of the
\* transform has the final segment as its key, and no (parent, key) pair is
\* transformed twice.
C7_TransformAtLastKey ==
    PathInvariant(parts) =>
        /\ \A i \in 1..Len(calls) : calls[i].key = parts[Len(parts)]
        /\ \A i, j \in 1..Len(calls) :
              (calls[i].at = calls[j].at /\ calls[i].key = calls[j].key) => i = j

\* C8: applying the same accepted path with remove a second time leaves the
\* document as the first application left it, and matches nothing.
C8_RemoveIdempotent ==
    (/\ pass = 2
     /\ status = "returned"
     /\ transformer = "remove"
     /\ PathInvariant(parts))
    => (document = first /\ calls = <<>>)

\* C9: the transform is never called on a dict while a loop over that
\* dict's items is running, every key it is called with is in the dict at
\* the call, and the keys collected by a running loop are all still there.
C9_DeferredMutation ==
    /\ \A i \in 1..Len(calls) : ~calls[i].iterating /\ calls[i].present
    /\ \A i \in 1..Len(stack) :
          (stack[i].fn = "_json_fan_out" /\ stack[i].pc \in {"iter", "apply"}) =>
              \A j \in 1..Len(stack[i].targets) :
                  stack[i].targets[j] \in DOMAIN NodeAt(document, stack[i].doc).m

\* A fan-out nested in another fan-out's loop has called the transform and
\* changed the document.
C9_Witness ==
    /\ document # orig
    /\ \E i \in 1..Len(calls) :
          /\ calls[i].via = "_json_fan_out"
          /\ calls[i].depth >= 2
    /\ \E i \in 1..Len(stack) :
          stack[i].fn = "_json_fan_out" /\ stack[i].pc = "iter"

\* The addresses of the dicts reachable from node through dict values.
RECURSIVE DictAddrs(_)
DictAddrs(node) ==
    IF ~IsDict(node) THEN {}
    ELSE {<<>>} \cup UNION {{<<c>> \o a : a \in DictAddrs(node.m[c])} :
                            c \in DOMAIN node.m}

\* C10: for [`**`, k] and remove_empty, which may leave a matched key in
\* place, the transform is called on (m, k) for every dict m that holds k and
\* is the root or reachable from it through dict values, also inside the
\* value of a matched k.
C10_DeepCoverage ==
    (/\ status = "returned"
     /\ transformer = "remove_empty"
     /\ Len(parts) = 2
     /\ parts[1] = DEEP
     /\ parts[2] \notin Wildcards
     /\ IsDict(orig))
    => \A a \in DictAddrs(orig) :
          parts[2] \in DOMAIN NodeAt(orig, a).m =>
              \E i \in 1..Len(calls) : calls[i].at = a /\ calls[i].key = parts[2]

====
